---- MODULE Spec2Model ----
(***************************************************************************)
(* Model of watermark-cli (src/index.js).                                  *)
(*                                                                         *)
(* Three specifications share the module:                                  *)
(*   GeomSpec  the geometry computed inside applyWatermark (target size    *)
(*             of the watermark and its offset on the base image);         *)
(*   Spec      the batch run of main(): resolution of the file list, the   *)
(*             load of the watermark, the reset of error.log and the       *)
(*             per-file loop with its conflict policy and its try/catch;   *)
(*   FairSpec  Spec with the fairness of a run whose awaits all settle.    *)
(***************************************************************************)
EXTENDS Integers, Sequences, FiniteSets, TLC

VARIABLES
    \* ---- geometry of one applyWatermark call (GeomSpec) ----
    gpc,            \* position inside applyWatermark
    baseWidth,      \* metadata.width of the input image
    baseHeight,     \* metadata.height of the input image
    scaleNum,       \* scale = scaleNum / ScaleDen
    wmWidth,        \* wmMeta.width  (0: missing)
    wmHeight,       \* wmMeta.height (0: missing)
    position,       \* anchor passed to applyWatermark
    targetW,        \* const targetW
    targetH,        \* const targetH
    left,           \* let left
    top,            \* let top
    \* ---- batch run of main() (Spec) ----
    pc,             \* position inside main()
    filesToProcess, \* the resolved, de-duplicated file list
    format,         \* lower-cased answer of the output-format prompt
    outDir,         \* resolved output directory, "" when none
    overwriteOption,\* "o" | "s" | "a"
    wmType,         \* "text" | "image"
    watermarkBuffer,\* "null" | "png-of-svg" | "file-bytes"
    fs,             \* the file system: path -> content, for existing paths
    errorLog,       \* "absent", or the sequence of lines of error.log
    idx,            \* index of the item the for-of loop is at
    status,         \* per item: "pending" | "done" | "skipped" | "failed"
    seenAtCheck,    \* per item: what fs held at outputPath when existsSync ran
    asked,          \* items for which the overwrite prompt was shown
    writes,         \* every toFile that wrote: [path, by, complete, codec]
    failures,       \* the catch block's lines, in order (whether or not appended)
    logWritable,    \* whether writes to error.log succeed during this run
    logFault,       \* TRUE once a write to error.log has failed (and was ignored)
    loads,          \* number of times the watermark source was rendered / read
    decodes,        \* number of times applyWatermark decoded watermarkBuffer
    summary         \* TRUE once the final summary line is printed

gvars == <<gpc, baseWidth, baseHeight, scaleNum, wmWidth, wmHeight, position,
           targetW, targetH, left, top>>

bvars == <<pc, filesToProcess, format, outDir, overwriteOption, wmType,
           watermarkBuffer, fs, errorLog, idx, status, seenAtCheck, asked,
           writes, failures, logWritable, logFault, loads, decodes, summary>>

vars == <<gvars, bvars>>

(***************************************************************************)
(* Bounds of the model.                                                    *)
(***************************************************************************)
MaxBaseW == 15      \* base images are 1..MaxBaseW wide
MaxBaseH == 3       \* and 1..MaxBaseH high
ScaleBits == 2      \* scale ratios are k / 2^ScaleBits, 0 < k <= 2^ScaleBits
MaxWm == 11         \* watermark sources are 0..MaxWm wide and high (0: unknown)
MaxTokens == 2      \* number of comma-separated tokens of the path prompt

ScaleDen == 2 ^ ScaleBits

(***************************************************************************)
(* IEEE-754 double arithmetic of                                            *)
(*     ratio = targetW / wmMeta.width;  Math.floor(wmMeta.height * ratio)  *)
(* computed exactly with small integers.  The quotient tw/w is rounded to  *)
(* 53 significant bits, the product h*ratio is rounded again, then floored.*)
(***************************************************************************)
RECURSIVE Pow2Mod(_, _)
Pow2Mod(e, m) == IF e = 0 THEN 1 % m ELSE (2 * Pow2Mod(e - 1, m)) % m

RECURSIVE FloorLog2Up(_, _, _)
\* largest f >= 0 with b * 2^f <= a, for a >= b > 0
FloorLog2Up(a, b, f) == IF a >= 2 * b * (2 ^ f) THEN FloorLog2Up(a, b, f + 1) ELSE f

RECURSIVE FloorLog2Down(_, _, _)
\* smallest g >= 1 with a * 2^g >= b, for 0 < a < b
FloorLog2Down(a, b, g) == IF a * (2 ^ g) < b THEN FloorLog2Down(a, b, g + 1) ELSE g

\* floor(log2(a / b)) for a, b > 0
FloorLog2(a, b) == IF a >= b THEN FloorLog2Up(a, b, 0) ELSE 0 - FloorLog2Down(a, b, 1)

RECURSIVE BitLen(_)
BitLen(n) == IF n = 0 THEN 0 ELSE 1 + BitLen(n \div 2)

IsPow2(n) == n > 0 /\ 2 ^ (BitLen(n) - 1) = n

\* Math.floor(h * (tw / w)) in double arithmetic, for h, w > 0 and tw >= 0.
\* When h*tw/w is not an integer the rounding errors (relative 2^-53) cannot
\* reach the next integer; when it is an integer n, the rounded quotient
\* m/2^e (m*w = tw*2^e + d) makes the exact product n*2^e + c, c = h*d/w,
\* which rounds back to n unless c < 0 and |c| exceeds half the spacing of
\* the doubles just below n.
FloorMulRatio(h, tw, w) ==
    IF tw = 0 THEN 0
    ELSE IF (h * tw) % w # 0 THEN (h * tw) \div w
    ELSE LET n == (h * tw) \div w
             f == FloorLog2(tw, w)
             e == 52 - f
             r == (tw * Pow2Mod(e, w)) % w
             d == IF 2 * r < w THEN 0 - r ELSE w - r
             c == (h * d) \div w
             bl == IF IsPow2(n) THEN BitLen(n) - 1 ELSE BitLen(n)
             t == bl - 2 - f
         IN  IF r = 0 \/ c >= 0 THEN n
             ELSE IF t < 0 THEN n - 1
             ELSE IF 0 - c > 2 ^ t THEN n - 1 ELSE n

(***************************************************************************)
(* applyWatermark: geometry (src/index.js 181-186 and 211-236).            *)
(***************************************************************************)
Positions == {"center", "top-left", "top-right", "bottom-left", "bottom-right",
              "middle"}     \* "middle": a value the switch does not recognise

\* const targetW = Math.floor(baseWidth * scale)
TargetWidth(bw, sn) == (bw * sn) \div ScaleDen

\* const ratio = wmMeta.width ? targetW / wmMeta.width : 1;
\* const targetH = wmMeta.height ? Math.floor(wmMeta.height * ratio)
\*                               : Math.floor(targetW * 0.5)
TargetHeight(ww, wh, tw) ==
    IF wh # 0
    THEN IF ww # 0 THEN FloorMulRatio(wh, tw, ww) ELSE wh
    ELSE tw \div 2

\* switch (position) { ... }  ->  <<left, top>>
\* variant: the centre offset rounded up instead of down
OffsetMutant(pos, bw, bh, tw, th) ==
    CASE pos = "top-left"     -> <<0, 0>>
      [] pos = "top-right"    -> <<bw - tw, 0>>
      [] pos = "bottom-left"  -> <<0, bh - th>>
      [] pos = "bottom-right" -> <<bw - tw, bh - th>>
      [] OTHER                -> <<0 - ((tw - bw) \div 2), 0 - ((th - bh) \div 2)>>
Offset(pos, bw, bh, tw, th) ==
    CASE pos = "top-left"     -> <<0, 0>>
      [] pos = "top-right"    -> <<bw - tw, 0>>
      [] pos = "bottom-left"  -> <<0, bh - th>>
      [] pos = "bottom-right" -> <<bw - tw, bh - th>>
      [] OTHER                -> <<(bw - tw) \div 2, (bh - th) \div 2>>

(***************************************************************************)
(* The batch variables while only the geometry is explored.                *)
(***************************************************************************)
BatchIdle ==
    /\ pc = "idle"
    /\ filesToProcess = <<>>
    /\ format = ""
    /\ outDir = ""
    /\ overwriteOption = "a"
    /\ wmType = "text"
    /\ watermarkBuffer = "null"
    /\ fs = <<>>
    /\ errorLog = "absent"
    /\ idx = 1
    /\ status = <<>>
    /\ seenAtCheck = <<>>
    /\ asked = {}
    /\ writes = {}
    /\ failures = <<>>
    /\ logWritable = TRUE
    /\ logFault = FALSE
    /\ loads = 0
    /\ decodes = 0
    /\ summary = FALSE

\* applyWatermark is entered with the metadata of the base image and of the
\* watermark, the scale and the anchor; nothing is computed yet.
GeomInit ==
    /\ BatchIdle
    /\ gpc = "entered"
    /\ baseWidth \in 1..MaxBaseW
    /\ baseHeight \in 1..MaxBaseH
    /\ scaleNum \in 1..ScaleDen
    /\ wmWidth \in 0..MaxWm
    /\ wmHeight \in 0..MaxWm
    /\ position \in Positions
    /\ targetW = 0
    /\ targetH = 0
    /\ left = 0
    /\ top = 0

\* lines 181-186: target size of the watermark
ComputeSize ==
    /\ gpc = "entered"
    /\ targetW' = TargetWidth(baseWidth, scaleNum)
    /\ targetH' = TargetHeight(wmWidth, wmHeight, TargetWidth(baseWidth, scaleNum))
    /\ gpc' = "sized"
    /\ UNCHANGED <<baseWidth, baseHeight, scaleNum, wmWidth, wmHeight, position,
                   left, top, bvars>>

\* lines 189-209: watermark.resize({ width: targetW, height: targetH }); sharp
\* accepts only positive integers there and throws otherwise.
ResizeAccepts(tw, th) == tw >= 1 /\ th >= 1

Resize ==
    /\ gpc = "sized"
    /\ gpc' = IF ResizeAccepts(targetW, targetH) THEN "resized" ELSE "threw"
    /\ UNCHANGED <<baseWidth, baseHeight, scaleNum, wmWidth, wmHeight, position,
                   targetW, targetH, left, top, bvars>>

\* lines 211-236: offset of the watermark on the base image
ComputeOffset ==
    /\ gpc = "resized"
    /\ left' = Offset(position, baseWidth, baseHeight, targetW, targetH)[1]
    /\ top' = Offset(position, baseWidth, baseHeight, targetW, targetH)[2]
    /\ gpc' = "placed"
    /\ UNCHANGED <<baseWidth, baseHeight, scaleNum, wmWidth, wmHeight, position,
                   targetW, targetH, bvars>>

GeomNext == ComputeSize \/ Resize \/ ComputeOffset

GeomSpec == GeomInit /\ [][GeomNext]_vars

(***************************************************************************)
(* Paths.  A path is [dir, base, wm, ext]: base followed by wm copies of   *)
(* "_watermarked" is the file name without its extension, so               *)
(* [dir |-> "d", base |-> "a", wm |-> 1, ext |-> "jpg"] is                 *)
(* d/a_watermarked.jpg.                                                    *)
(***************************************************************************)
Path(d, b, k, e) == [dir |-> d, base |-> b, wm |-> k, ext |-> e]

FileA == Path("d", "a", 0, "png")        \* d/a.png
FileAW == Path("d", "a", 1, "png")       \* d/a_watermarked.png, left by an earlier run
FileAJ == Path("e", "a", 0, "JPEG")      \* e/a.JPEG
FileTxt == Path("e", "notes", 0, "txt")  \* e/notes.txt, not an image
FileGone == Path("d", "gone", 0, "jpg")  \* a path that does not exist

\* what the operator may type at the path prompt: a file, or the directory e
Tokens == {[kind |-> "file", path |-> f] : f \in {FileA, FileAW, FileAJ, FileTxt, FileGone}}
          \cup {[kind |-> "dir", path |-> Path("e", "", 0, "")]}

\* fs.readdirSync of a directory
DirEntries(d) == IF d = "e" THEN <<FileTxt, FileAJ>> ELSE <<FileA, FileAW>>

\* String.prototype.toLowerCase on the extensions of the model
ToLower(s) == IF s = "JPEG" THEN "jpeg" ELSE IF s = "Y" THEN "y" ELSE s

\* lines 84-87
IsSupportedImage(file) == ToLower(file.ext) \in {"jpg", "jpeg", "png"}

RECURSIVE FilterImages(_)
FilterImages(entries) ==
    IF entries = <<>> THEN <<>>
    ELSE (IF IsSupportedImage(Head(entries)) THEN <<Head(entries)>> ELSE <<>>)
         \o FilterImages(Tail(entries))

\* lines 94-108
ListImageFiles(d) == FilterImages(DirEntries(d))

Range(seq) == {seq[i] : i \in DOMAIN seq}

RECURSIVE Dedupe(_)
\* line 293: Array.from(new Set(filesToProcess)) keeps the first occurrence
Dedupe(seq) ==
    IF seq = <<>> THEN <<>>
    ELSE LET front == Dedupe(SubSeq(seq, 1, Len(seq) - 1))
             last == seq[Len(seq)]
         IN  IF last \in Range(front) THEN front ELSE Append(front, last)

RECURSIVE ExpandTokens(_, _)
\* lines 272-286: existing is the set of paths that exist when the prompt is read
ExpandTokens(tokens, existing) ==
    IF tokens = <<>> THEN <<>>
    ELSE LET t == Head(tokens)
             here == IF t.kind = "dir" THEN ListImageFiles(t.path.dir)
                     ELSE IF t.path \notin existing THEN <<>>
                     ELSE IF IsSupportedImage(t.path) THEN <<t.path>>
                     ELSE <<>>
         IN  here \o ExpandTokens(Tail(tokens), existing)

\* lines 270-293
ResolveFiles(tokens, existing) == Dedupe(ExpandTokens(tokens, existing))

\* lines 407-412: the format of one file
\* variant: the source extension taken as it is, jpeg not rewritten to jpg
OutFormatMutant(fmt, inputFile) ==
    LET ext == ToLower(inputFile.ext)
    IN  IF fmt \in {"jpg", "jpeg", "png"} THEN fmt ELSE ext
OutFormat(fmt, inputFile) ==
    LET ext == ToLower(inputFile.ext)
    IN  IF fmt \in {"jpg", "jpeg", "png"} THEN fmt
        ELSE IF ext = "jpeg" THEN "jpg" ELSE ext

\* line 414
TargetDir(dir, inputFile) == IF dir # "" THEN dir ELSE inputFile.dir

\* lines 117-121
GenerateOutputName(inputFile, outputDir, fmt) ==
    Path(outputDir, inputFile.base, inputFile.wm + 1, fmt)

\* line 415, for the item at position i of the list
OutputPath(i) ==
    GenerateOutputName(filesToProcess[i], TargetDir(outDir, filesToProcess[i]),
                       OutFormat(format, filesToProcess[i]))

\* lines 250-254: the encoder applyWatermark selects
Encoder(outputFormat) == IF outputFormat \in {"jpg", "jpeg"} THEN "jpeg" ELSE "png"

\* lines 417-432: what the loop does with an item whose output path exists
\* or not: "apply", "skip" or "ask"
\* variant: overwriteAll not honoured, the operator is asked
ConflictAsksMutant(exists, option) ==
    IF ~exists THEN "apply"
    ELSE IF option = "s" THEN "skip"
    ELSE "ask"
\* variant: skipAll not honoured, the item is processed
ConflictMutant(exists, option) ==
    IF ~exists THEN "apply"
    ELSE IF option = "o" THEN "apply"
    ELSE IF option = "s" THEN "apply"
    ELSE "ask"
Conflict(exists, option) ==
    IF ~exists THEN "apply"
    ELSE IF option = "o" THEN "apply"
    ELSE IF option = "s" THEN "skip"
    ELSE "ask"

\* lines 426-430
AnswerProceeds(choice) == ToLower(choice) = "y"

\* file contents
Source == [by |-> 0, codec |-> "source", complete |-> TRUE]
Old == [by |-> 0, codec |-> "old", complete |-> TRUE]
Absent == [by |-> 0, codec |-> "absent", complete |-> FALSE]
Unchecked == [by |-> 0, codec |-> "unchecked", complete |-> FALSE]
Written(i, fmt, whole) == [by |-> i, codec |-> Encoder(fmt), complete |-> whole]

Exists(p) == p \in DOMAIN fs
ContentAt(p) == IF Exists(p) THEN fs[p] ELSE Absent
WriteFile(p, c) == [q \in DOMAIN fs \cup {p} |-> IF q = p THEN c ELSE fs[q]]

\* line 442
ErrorLine(inputFile, message) == [file |-> inputFile, msg |-> message]
StaleLine == ErrorLine(FileGone, "stale")

(***************************************************************************)
(* main(): the batch run.                                                  *)
(***************************************************************************)
GeomIdle ==
    /\ gpc = "idle"
    /\ baseWidth = 0
    /\ baseHeight = 0
    /\ scaleNum = 0
    /\ wmWidth = 0
    /\ wmHeight = 0
    /\ position = "center"
    /\ targetW = 0
    /\ targetH = 0
    /\ left = 0
    /\ top = 0

RECURSIVE SeqsUpTo(_, _)
\* the non-empty sequences over S of length at most n
SeqsUpTo(S, n) ==
    IF n = 0 THEN {}
    ELSE LET shorter == SeqsUpTo(S, n - 1)
         IN  {<<x>> : x \in S} \cup shorter
             \cup {Append(q, x) : q \in shorter, x \in S}

\* answers of the output-format prompt after toLowerCase (line 324);
\* "gif" stands for every answer that is not jpg, jpeg or png
Formats == {"", "jpg", "jpeg", "png", "gif"}

\* answers of the output-directory prompt after path.resolve (lines 328-341)
OutDirs == {"", "out"}

\* the files on disk when the tool starts
OnDisk == {FileA, FileAW, FileAJ, FileTxt}

\* The state when the prompts before the watermark options (lines 266-348)
\* have been answered: the file list is resolved, the options are fixed.
\* Output files of an earlier run may exist beside the sources.
Init ==
    /\ GeomIdle
    /\ \E tokens \in SeqsUpTo(Tokens, MaxTokens) :
         filesToProcess = ResolveFiles(tokens, OnDisk)
    /\ errorLog = <<StaleLine>>      \* error.log of an earlier run
    /\ format \in Formats
    /\ outDir \in OutDirs
    /\ overwriteOption \in {"o", "s", "a"}
    /\ wmType \in {"text", "image"}
    /\ \E pre \in SUBSET {GenerateOutputName(f, TargetDir(outDir, f), OutFormat(format, f)) :
                            f \in Range(filesToProcess)} :
         fs = [p \in OnDisk \cup pre |-> IF p \in OnDisk THEN Source ELSE Old]
    /\ pc = IF filesToProcess = <<>> THEN "exit" ELSE "loadWatermark"
    /\ watermarkBuffer = "null"
    /\ idx = 1
    /\ status = [i \in DOMAIN filesToProcess |-> "pending"]
    /\ seenAtCheck = [i \in DOMAIN filesToProcess |-> Unchecked]
    /\ asked = {}
    /\ writes = {}
    /\ failures = <<>>
    /\ logWritable \in BOOLEAN     \* e.g. FALSE: error.log is read-only
    /\ logFault = FALSE
    /\ loads = 0
    /\ decodes = 0
    /\ summary = FALSE

\* lines 355-391: the watermark options are asked and the watermark source is
\* turned into watermarkBuffer: the SVG of the text rasterised to PNG, or the
\* bytes of the watermark image file as they are on disk.
LoadedBuffer(type) == IF type = "text" THEN "png-of-svg" ELSE "file-bytes"

LoadWatermark ==
    /\ pc = "loadWatermark"
    /\ \E outcome \in {"loaded", "invalid", "throws"} :
         /\ outcome = "invalid" => wmType = "image"
         /\ IF outcome = "loaded"
            THEN /\ watermarkBuffer' = LoadedBuffer(wmType)
                 /\ loads' = loads + 1
                 /\ pc' = "resetLog"
            ELSE /\ UNCHANGED <<watermarkBuffer, loads>>
                 \* lines 385-389 (return) or the outer catch, lines 453-454
                 /\ pc' = IF outcome = "invalid" THEN "exit" ELSE "crashed"
    /\ UNCHANGED <<filesToProcess, format, outDir, overwriteOption, wmType, fs,
                   errorLog, idx, status, seenAtCheck, asked, writes, failures,
                   logWritable, logFault, decodes, summary, gvars>>

\* line 397: fs.writeFileSync(errorLogPath, '')
\* variant: error.log opened without being emptied
TruncatedMutant(log) == log
Truncated(log) == <<>>

\* lines 393-402: error.log is emptied; a failure of the write is ignored
ResetErrorLog ==
    /\ pc = "resetLog"
    /\ errorLog' = IF logWritable THEN Truncated(errorLog) ELSE errorLog
    /\ logFault' = (logFault \/ ~logWritable)
    /\ pc' = "item"
    /\ UNCHANGED <<filesToProcess, format, outDir, overwriteOption, wmType,
                   watermarkBuffer, fs, idx, status, seenAtCheck, asked, writes,
                   failures, logWritable, loads, decodes, summary, gvars>>

\* the for-of loop moves on after an item: after continue (line 435), after
\* the end of the try body (line 439) and after the catch block (line 449)
\* variant: the loop is left after the item
AfterItemMutant(i) == Len(filesToProcess) + 1
AfterItem(i) == i + 1

\* lines 405-436: output path and conflict check of the item at idx
BeginItem ==
    /\ pc = "item"
    /\ idx <= Len(filesToProcess)
    /\ LET decision == Conflict(Exists(OutputPath(idx)), overwriteOption)
       IN  /\ seenAtCheck' = [seenAtCheck EXCEPT ![idx] = ContentAt(OutputPath(idx))]
           /\ asked' = IF decision = "ask" THEN asked \cup {idx} ELSE asked
           /\ status' = IF decision = "skip" THEN [status EXCEPT ![idx] = "skipped"]
                        ELSE status
           /\ idx' = IF decision = "skip" THEN AfterItem(idx) ELSE idx
           /\ pc' = CASE decision = "skip" -> "item"
                      [] decision = "ask" -> "asking"
                      [] OTHER -> "applying"
    /\ UNCHANGED <<filesToProcess, format, outDir, overwriteOption, wmType,
                   watermarkBuffer, fs, errorLog, writes, failures, logWritable,
                   logFault, loads, decodes, summary, gvars>>

\* lines 425-436: the operator answers the overwrite prompt
AnswerPrompt ==
    /\ pc = "asking"
    /\ \E choice \in {"y", "Y", "n", ""} :
         IF AnswerProceeds(choice)
         THEN /\ pc' = "applying"
              /\ UNCHANGED <<status, idx>>
         ELSE /\ pc' = "item"
              /\ status' = [status EXCEPT ![idx] = "skipped"]
              /\ idx' = AfterItem(idx)
    /\ UNCHANGED <<filesToProcess, format, outDir, overwriteOption, wmType,
                   watermarkBuffer, fs, errorLog, seenAtCheck, asked, writes,
                   failures, logWritable, logFault, loads, decodes, summary, gvars>>

\* line 176: applyWatermark decodes watermarkBuffer (sharp(watermarkBuf)) once
\* it has read the metadata of the input image (line 171)
\* variant: applyWatermark given an already decoded watermark
DecodesAfterMutant(n, stage) == n
DecodesAfter(n, stage) == IF stage = "metadata" THEN n ELSE n + 1

\* lines 438-439 and 168-256: applyWatermark runs to its end
ApplyWatermarkDone ==
    /\ pc = "applying"
    /\ fs' = WriteFile(OutputPath(idx),
                       Written(idx, OutFormat(format, filesToProcess[idx]), TRUE))
    /\ writes' = writes \cup {[path |-> OutputPath(idx), by |-> idx, complete |-> TRUE,
                            codec |-> Encoder(OutFormat(format, filesToProcess[idx]))]}
    /\ decodes' = DecodesAfter(decodes, "toFile")
    /\ status' = [status EXCEPT ![idx] = "done"]
    /\ idx' = AfterItem(idx)
    /\ pc' = "item"
    /\ UNCHANGED <<filesToProcess, format, outDir, overwriteOption, wmType,
                   watermarkBuffer, errorLog, seenAtCheck, asked, failures,
                   logWritable, logFault, loads, summary, gvars>>

\* lines 438 and 440-449: applyWatermark throws, at the metadata of the input
\* (line 171, before the watermark is touched) or later, up to toFile (line
\* 255), which may leave an incomplete output file; the catch block appends
\* the line to error.log, ignoring a failure of the append.
ApplyWatermarkThrows ==
    /\ pc = "applying"
    /\ \E stage \in {"metadata", "toFile"}, partial \in BOOLEAN :
         /\ partial => stage = "toFile"
         /\ decodes' = DecodesAfter(decodes, stage)
         /\ fs' = IF partial
                  THEN WriteFile(OutputPath(idx),
                                 Written(idx, OutFormat(format, filesToProcess[idx]), FALSE))
                  ELSE fs
         /\ writes' = IF partial
                      THEN writes \cup {[path |-> OutputPath(idx), by |-> idx,
                                         complete |-> FALSE,
                                         codec |-> Encoder(OutFormat(format, filesToProcess[idx]))]}
                      ELSE writes
         /\ failures' = Append(failures, ErrorLine(filesToProcess[idx], stage))
         /\ errorLog' = IF logWritable
                        THEN Append(errorLog, ErrorLine(filesToProcess[idx], stage))
                        ELSE errorLog
         /\ logFault' = (logFault \/ ~logWritable)
    /\ status' = [status EXCEPT ![idx] = "failed"]
    /\ idx' = AfterItem(idx)
    /\ pc' = "item"
    /\ UNCHANGED <<filesToProcess, format, outDir, overwriteOption, wmType,
                   watermarkBuffer, seenAtCheck, asked, logWritable, loads, summary,
                   gvars>>

\* lines 452 and 455-457: the loop is over, the summary line is printed
PrintSummary ==
    /\ pc = "item"
    /\ idx > Len(filesToProcess)
    /\ summary' = TRUE
    /\ pc' = "closed"
    /\ UNCHANGED <<filesToProcess, format, outDir, overwriteOption, wmType,
                   watermarkBuffer, fs, errorLog, idx, status, seenAtCheck, asked,
                   writes, failures, logWritable, logFault, loads, decodes, gvars>>

Next ==
    \/ LoadWatermark
    \/ ResetErrorLog
    \/ BeginItem
    \/ AnswerPrompt
    \/ ApplyWatermarkDone
    \/ ApplyWatermarkThrows
    \/ PrintSummary

Spec == Init /\ [][Next]_vars

\* every await of main() settles: the prompts are answered and sharp's
\* promises resolve or reject
FairSpec == Spec /\ WF_vars(Next)

(***************************************************************************)
(* Properties of the geometry (GeomSpec).                                  *)
(***************************************************************************)

\* C5: once applyWatermark has computed the offset, it is the one of the
\* anchor table: top-left (0,0); top-right (baseWidth-targetW, 0);
\* bottom-left (0, baseHeight-targetH); bottom-right flush with the right and
\* bottom edges; center and every other value the floor of half the free
\* space in each direction, with left >= 0 whenever targetW <= baseWidth.
\* (x = floor(y/2) is stated as 2x <= y <= 2x+1.)
OffsetMatchesAnchorTable ==
    gpc = "placed" =>
      /\ position = "top-left" => (left = 0 /\ top = 0)
      /\ position = "top-right" => (left = baseWidth - targetW /\ top = 0)
      /\ position = "bottom-left" => (left = 0 /\ top = baseHeight - targetH)
      /\ position = "bottom-right" =>
            (left + targetW = baseWidth /\ top + targetH = baseHeight)
      /\ position \in {"center", "middle"} =>
            /\ 2 * left <= baseWidth - targetW
            /\ baseWidth - targetW <= 2 * left + 1
            /\ 2 * top <= baseHeight - targetH
            /\ baseHeight - targetH <= 2 * top + 1
            /\ (targetW <= baseWidth => left >= 0)

\* an unrecognised anchor, an odd free width and a watermark higher than the
\* base image (negative, odd free height)
OffsetWitness ==
    /\ gpc = "placed"
    /\ position = "middle"
    /\ (baseWidth - targetW) % 2 = 1
    /\ baseHeight - targetH < 0
    /\ (targetH - baseHeight) % 2 = 1

\* C6: for baseWidth > 0, scale in (0,1] and a watermark source of known
\* size, targetW = floor(baseWidth * scale) with 0 < targetW <= baseWidth,
\* and targetH > 0.
TargetSizePositive ==
    (gpc # "entered" /\ wmWidth > 0 /\ wmHeight > 0) =>
      /\ targetW * ScaleDen <= baseWidth * scaleNum
      /\ baseWidth * scaleNum < (targetW + 1) * ScaleDen
      /\ 0 < targetW
      /\ targetW <= baseWidth
      /\ targetH > 0

\* C9: targetH = floor(wmHeight * targetW / wmWidth) when both source
\* dimensions are known, floor(targetW * 0.5) when one of them is missing.
TargetHeightKeepsAspect ==
    gpc # "entered" =>
      IF wmWidth # 0 /\ wmHeight # 0
      THEN /\ targetH * wmWidth <= wmHeight * targetW
           /\ wmHeight * targetW < (targetH + 1) * wmWidth
      ELSE /\ 2 * targetH <= targetW
           /\ targetW <= 2 * targetH + 1

(***************************************************************************)
(* Properties of the batch run (Spec, FairSpec).                           *)
(***************************************************************************)
Items == DOMAIN filesToProcess

InLoop == pc \in {"item", "asking", "applying", "closed"}

ExistedAtCheck(i) == seenAtCheck[i] # Unchecked /\ seenAtCheck[i] # Absent

IsFailed(i) == status[i] = "failed"

\* the indices of the failed items, in processing order
FailedItems == SelectSeq([i \in Items |-> i], IsFailed)

WroteBeyondMetadata(line) == line.msg # "metadata"

\* C1 (safety part): the loop is left only after the last item.  Every item
\* before the loop position has had its conflict check and has a final
\* status, no item after it has been touched, the items whose processing
\* threw are exactly the failed ones, and the run never ends in the outer
\* catch once the loop has started.
FailureIsolated ==
    /\ InLoop =>
         /\ idx <= Len(filesToProcess) + 1
         /\ \A i \in Items :
              /\ i < idx => (status[i] \in {"done", "skipped", "failed"}
                             /\ seenAtCheck[i] # Unchecked)
              /\ i > idx => (status[i] = "pending" /\ seenAtCheck[i] = Unchecked)
         /\ Len(failures) = Len(FailedItems)
         /\ \A k \in DOMAIN failures :
              failures[k].file = filesToProcess[FailedItems[k]]
    /\ summary => \A i \in Items : status[i] # "pending"
    /\ pc = "crashed" => (idx = 1 /\ failures = <<>> /\ watermarkBuffer = "null")

\* C1: a failure of one item never aborts the batch: the safety part above,
\* and once the loop has started the run reaches the final summary line.
FailureNeverAbortsBatch ==
    /\ []FailureIsolated
    /\ (pc = "item") ~> summary

\* an item failed, a later item was still processed, the summary was printed
FailureThenProgress ==
    /\ summary
    /\ \E i, j \in Items : i < j /\ status[i] = "failed" /\ status[j] = "done"

\* C2: under skipAll an item whose output path exists when it is checked is
\* skipped, applyWatermark is not called for it, and the file it found is
\* still there, unchanged, in every later state of the batch.
SkipAllKeepsExisting ==
    overwriteOption = "s" =>
      \A i \in Items :
        ExistedAtCheck(i) =>
          /\ status[i] = "skipped"
          /\ ~(\E w \in writes : w.by = i)
          /\ ContentAt(OutputPath(i)) = seenAtCheck[i]

\* skipAll, one item found its output and was skipped, another was written
SkipAllWitness ==
    /\ overwriteOption = "s"
    /\ summary
    /\ \E i, j \in Items :
         /\ ExistedAtCheck(i)
         /\ status[i] = "skipped"
         /\ status[j] = "done"

\* C3 as claimed: under overwriteAll every item whose output path exists has
\* that file replaced by the batch, without a prompt.
OverwriteAllAlwaysReplaces ==
    overwriteOption = "o" =>
      \A i \in Items :
        (i < idx /\ ExistedAtCheck(i)) =>
          /\ i \notin asked
          /\ \E w \in writes : w.by = i /\ w.path = OutputPath(i) /\ w.complete

\* C3 amended: under overwriteAll an item whose output path exists is never
\* prompted for and never skipped: it goes to applyWatermark.  The existing
\* file is replaced when applyWatermark runs to its end; when it throws the
\* item is failed and no complete output was written for it.
OverwriteAllProceeds ==
    overwriteOption = "o" =>
      /\ asked = {}
      /\ \A i \in Items :
           ExistedAtCheck(i) =>
             /\ status[i] # "skipped"
             /\ i = idx => pc = "applying"
             /\ i < idx => status[i] \in {"done", "failed"}
             /\ status[i] = "done" =>
                  \E w \in writes : w.by = i /\ w.path = OutputPath(i) /\ w.complete
             /\ status[i] = "failed" =>
                  ~(\E w \in writes : w.by = i /\ w.complete)

\* overwriteAll: one existing output was replaced, the replacement of another
\* failed
OverwriteAllWitness ==
    /\ overwriteOption = "o"
    /\ \E i, j \in Items :
         /\ ExistedAtCheck(i) /\ status[i] = "done"
         /\ fs[OutputPath(i)] # seenAtCheck[i]
         /\ ExistedAtCheck(j) /\ status[j] = "failed"

WatermarkDecodedOnce ==
    InLoop => (loads = 1 /\ decodes = 0)

\* C7 amended: the watermark source is loaded exactly once per batch, before
\* the first file (the text is rasterised to a PNG buffer, the image file is
\* only read), and the buffer stays the same for all files; every
\* applyWatermark call that gets past the metadata of its input decodes that
\* buffer again, so the decodes number the calls, not one.
WatermarkLoadedOnce ==
    InLoop =>
      /\ loads = 1
      /\ watermarkBuffer = (IF wmType = "text" THEN "png-of-svg" ELSE "file-bytes")
      /\ decodes = Cardinality({i \in Items : status[i] = "done"})
                   + Len(SelectSeq(failures, WroteBeyondMetadata))

\* an image watermark, decoded by two applyWatermark calls of one batch
WatermarkWitness ==
    /\ pc = "closed"
    /\ wmType = "image"
    /\ loads = 1
    /\ decodes >= 2

\* the lines error.log is meant to hold: one per failed item, in order
LogHoldsExactlyTheFailures ==
    /\ Len(errorLog) = Len(FailedItems)
    /\ \A k \in DOMAIN errorLog :
         /\ errorLog[k].file = filesToProcess[FailedItems[k]]
         /\ errorLog[k] = failures[k]

NoWriteToInputFile ==
    \A w \in writes : w.path \notin Range(filesToProcess)

====
